---- MODULE Spec2Model ----
(***************************************************************************)
(* State-machine model of the AI prompt enhancer's main window             *)
(* (src/main_window.py) with its collaborators src/api_client.py,          *)
(* src/prompt_manager.py and src/utils.py.                                 *)
(*                                                                         *)
(* The MainWindow object is the record-valued variable `self`; its fields  *)
(* carry the names of the attributes and widgets of the source.  Every     *)
(* slot of the window is one action; helper methods are operators from a   *)
(* window record to a window record, composed in the order of the calls.   *)
(* Texts are sequences of one-token strings.                               *)
(***************************************************************************)
EXTENDS Integers, Sequences, FiniteSets, TLC

VARIABLES
    self,      \* the MainWindow instance: attributes and widget states
    files,     \* text files on disk (saved prompts): path -> content
    presets,   \* files of PROMPT_DIR: file name -> content
    tasks,     \* ApiWorker instances handed to the thread pool
    queue,     \* signals queued for delivery on the GUI thread
    timer      \* TRUE while QTimer.singleShot(100, _load_initial_data) is pending

vars == <<self, files, presets, tasks, queue, timer>>

None == "None"

\* ------------------------------------------------------------------------
\* Program constants
GENERATOR_VIEW_INDEX == 0
PROMPT_EDITOR_VIEW_INDEX == 1
SYSTEM_PROMPTS_VIEW_INDEX == 2
SETTINGS_VIEW_INDEX == 3
DEFAULT_PROMPT_NAME == "default.txt"

Views == {GENERATOR_VIEW_INDEX, PROMPT_EDITOR_VIEW_INDEX,
          SYSTEM_PROMPTS_VIEW_INDEX, SETTINGS_VIEW_INDEX}

\* ------------------------------------------------------------------------
\* Input domains
Paths == {"a.txt", "b.txt"}
EditTexts == {<<"e">>, <<"e", " ">>}
SaveAsNames == {"q.txt", "q", "Default.txt", "default.txt", "default"}
GoalTexts == {<<>>, <<"goal">>}
EndpointTexts == {<<>>, <<"h">>, <<"http://", "h", "/">>}
ApiTypes == {"Ollama", "OpenAI"}
IO == {"ok", "fail"}

\* Bounds
MaxTasks == 3
MaxFileLen == 30

\* ------------------------------------------------------------------------
\* Text helpers
Whitespace == {" ", "\n"}

RECURSIVE LStrip(_)
LStrip(t) == IF t # <<>> /\ Head(t) \in Whitespace THEN LStrip(Tail(t)) ELSE t

RECURSIVE RStrip(_)
RStrip(t) ==
    IF t # <<>> /\ t[Len(t)] \in Whitespace
    THEN RStrip(SubSeq(t, 1, Len(t) - 1))
    ELSE t

Strip(t) == RStrip(LStrip(t))

Range(f) == {f[i] : i \in DOMAIN f}

\* ------------------------------------------------------------------------
\* Console log of the handler being run, and message boxes
Log(s, line) == [s EXCEPT !.log = Append(@, line)]

Begin(s) == [s EXCEPT !.log = <<>>]

ShowErrorMessage(s, title) == Log(s, "ERROR: " \o title)

ShowWarningMessage(s, title) == Log(s, "WARNING: " \o title)

ShowInfoMessage(s, title) == Log(s, "INFO: " \o title)

ConfirmAction_NotAsked(s, yes) == s

ConfirmAction(s, yes) ==
    Log(s, IF yes THEN "User confirmation: True" ELSE "User confirmation: False")

\* ------------------------------------------------------------------------
\* Dirty flags
MarkDirty(s) ==
    IF s.system_prompt_editor_enabled
    THEN [s EXCEPT !.system_prompt_editor_dirty = TRUE,
                   !.save_button = (s.prompt_list_current # None)]
    ELSE s

ClearDirtyFlag(s) ==
    [s EXCEPT !.system_prompt_editor_dirty = FALSE, !.save_button = FALSE]

PeMarkDirty_Unguarded(s) ==
    [s EXCEPT !.prompt_editor_dirty = TRUE,
              !.pe_save_button = (s.current_prompt_editor_file # None)]

PeMarkDirty(s) ==
    IF s.pe_editor_enabled /\ ~s.pe_editor_readOnly
    THEN [s EXCEPT !.prompt_editor_dirty = TRUE,
                   !.pe_save_button = (s.current_prompt_editor_file # None)]
    ELSE s

PeClearDirtyFlag_KeepsFlag(s) == [s EXCEPT !.pe_save_button = FALSE]

PeClearDirtyFlag(s) ==
    [s EXCEPT !.prompt_editor_dirty = FALSE, !.pe_save_button = FALSE]

\* ------------------------------------------------------------------------
\* Prompt editor: close and load
PeCloseFile_KeepTarget(s, force, yes) ==
    IF s.current_prompt_editor_file = None THEN s
    ELSE IF ~force /\ s.prompt_editor_dirty /\ ~yes
    THEN Log(ConfirmAction(s, FALSE), "Close cancel.")
    ELSE
      LET s0 == IF ~force /\ s.prompt_editor_dirty THEN ConfirmAction(s, TRUE) ELSE s
          \* pe_editor.clear() emits textChanged
          s1 == PeMarkDirty([s0 EXCEPT !.pe_editor_text = <<>>])
          s2 == [s1 EXCEPT !.pe_editor_enabled = FALSE,
                           !.pe_editor_readOnly = TRUE,
                           !.pe_filename_label = "No file open."]
          s3 == s2
          s4 == PeClearDirtyFlag([s3 EXCEPT !.current_prompt_editor_file = None])
      IN Log([s4 EXCEPT !.pe_save_button = FALSE,
                        !.pe_close_button = FALSE,
                        !.pe_synced = <<>>], "Prompt file closed.")

PeCloseFile_CancelClears(s, force, yes) ==
    IF s.current_prompt_editor_file = None THEN s
    ELSE IF ~force /\ s.prompt_editor_dirty /\ ~yes
    THEN Log(PeClearDirtyFlag(ConfirmAction(s, FALSE)), "Close cancel.")
    ELSE
      LET s0 == IF ~force /\ s.prompt_editor_dirty THEN ConfirmAction(s, TRUE) ELSE s
          \* pe_editor.clear() emits textChanged
          s1 == PeMarkDirty([s0 EXCEPT !.pe_editor_text = <<>>])
          s2 == [s1 EXCEPT !.pe_editor_enabled = FALSE,
                           !.pe_editor_readOnly = TRUE,
                           !.pe_filename_label = "No file open."]
          s3 == IF s2.current_prompt_editor_file = s2.save_target_file
                THEN [s2 EXCEPT !.save_target_file = None, !.save_gen_button = FALSE]
                ELSE s2
          s4 == PeClearDirtyFlag([s3 EXCEPT !.current_prompt_editor_file = None])
      IN Log([s4 EXCEPT !.pe_save_button = FALSE,
                        !.pe_close_button = FALSE,
                        !.pe_synced = <<>>], "Prompt file closed.")

PeCloseFile(s, force, yes) ==
    IF s.current_prompt_editor_file = None THEN s
    ELSE IF ~force /\ s.prompt_editor_dirty /\ ~yes
    THEN Log(ConfirmAction(s, FALSE), "Close cancel.")
    ELSE
      LET s0 == IF ~force /\ s.prompt_editor_dirty THEN ConfirmAction(s, TRUE) ELSE s
          \* pe_editor.clear() emits textChanged
          s1 == PeMarkDirty([s0 EXCEPT !.pe_editor_text = <<>>])
          s2 == [s1 EXCEPT !.pe_editor_enabled = FALSE,
                           !.pe_editor_readOnly = TRUE,
                           !.pe_filename_label = "No file open."]
          s3 == IF s2.current_prompt_editor_file = s2.save_target_file
                THEN [s2 EXCEPT !.save_target_file = None, !.save_gen_button = FALSE]
                ELSE s2
          s4 == PeClearDirtyFlag([s3 EXCEPT !.current_prompt_editor_file = None])
      IN Log([s4 EXCEPT !.pe_save_button = FALSE,
                        !.pe_close_button = FALSE,
                        !.pe_synced = <<>>], "Prompt file closed.")

LoadFileIntoPeEditor_KeepTarget(s, disk, filepath, io) ==
    IF filepath \in DOMAIN disk /\ io = "ok"
    THEN
      LET content == disk[filepath]
          s1 == [s EXCEPT !.current_prompt_editor_file = filepath]
          \* pe_editor.setPlainText(content) emits textChanged
          s2 == PeMarkDirty([s1 EXCEPT !.pe_editor_text = content])
          s3 == [s2 EXCEPT !.pe_filename_label = "base_name",
                           !.pe_editor_enabled = TRUE,
                           !.pe_editor_readOnly = FALSE,
                           !.pe_close_button = TRUE,
                           !.pe_synced = content]
      IN Log(PeClearDirtyFlag(s3), "PE Load OK.")
    ELSE PeCloseFile(ShowErrorMessage(s, "File Error"), TRUE, FALSE)

LoadFileIntoPeEditor(s, disk, filepath, io) ==
    IF filepath \in DOMAIN disk /\ io = "ok"
    THEN
      LET content == disk[filepath]
          s1 == [s EXCEPT !.save_target_file = filepath,
                          !.current_prompt_editor_file = filepath]
          \* pe_editor.setPlainText(content) emits textChanged
          s2 == PeMarkDirty([s1 EXCEPT !.pe_editor_text = content])
          s3 == [s2 EXCEPT !.pe_filename_label = "base_name",
                           !.pe_editor_enabled = TRUE,
                           !.pe_editor_readOnly = FALSE,
                           !.pe_close_button = TRUE,
                           !.pe_synced = content]
      IN Log(PeClearDirtyFlag(s3), "PE Load OK.")
    ELSE PeCloseFile(ShowErrorMessage(s, "File Error"), TRUE, FALSE)

\* ------------------------------------------------------------------------
\* Navigation
\* The row _on_nav_changed prints on entry
RowLine(current_row) == <<"Row: 0", "Row: 1", "Row: 2", "Row: 3">>[current_row + 1]

OnNavChanged_NoRevert(s, disk, current_row, yes, io) ==
    LET previous_index == s.stacked_widget
        askSys == previous_index = SYSTEM_PROMPTS_VIEW_INDEX /\ s.system_prompt_editor_dirty
        askPe == ~askSys /\ previous_index = PROMPT_EDITOR_VIEW_INDEX /\ s.prompt_editor_dirty
        can_switch == IF askSys \/ askPe THEN yes ELSE TRUE
        s0 == Log(s, RowLine(current_row))
        s1 == IF askSys \/ askPe THEN ConfirmAction(s0, yes) ELSE s0
        s2 == IF askSys /\ can_switch THEN ClearDirtyFlag(s1)
              ELSE IF askPe /\ can_switch THEN PeClearDirtyFlag(s1)
              ELSE s1
        s3 == [s2 EXCEPT !.stacked_widget = current_row]
    IN IF can_switch
       THEN IF current_row = PROMPT_EDITOR_VIEW_INDEX
            THEN IF s3.save_target_file # None
                    /\ s3.save_target_file # s3.current_prompt_editor_file
                 THEN LoadFileIntoPeEditor(s3, disk, s3.save_target_file, io)
                 ELSE IF s3.save_target_file = None /\ s3.current_prompt_editor_file # None
                 THEN PeCloseFile(s3, TRUE, FALSE)
                 ELSE IF s3.save_target_file = None /\ s3.current_prompt_editor_file = None
                 THEN LET c == PeMarkDirty([s3 EXCEPT !.pe_editor_text = <<>>])
                      IN [c EXCEPT !.pe_editor_enabled = FALSE,
                                   !.pe_editor_readOnly = TRUE,
                                   !.pe_save_button = FALSE,
                                   !.pe_close_button = FALSE,
                                   !.pe_filename_label = "No file open."]
                 ELSE s3
            ELSE s3
       ELSE Log(s2, "Reverting selection.")

OnNavChanged_DropsTarget(s, disk, current_row, yes, io) ==
    LET previous_index == s.stacked_widget
        askSys == previous_index = SYSTEM_PROMPTS_VIEW_INDEX /\ s.system_prompt_editor_dirty
        askPe == ~askSys /\ previous_index = PROMPT_EDITOR_VIEW_INDEX /\ s.prompt_editor_dirty
        can_switch == IF askSys \/ askPe THEN yes ELSE TRUE
        s0 == Log(s, RowLine(current_row))
        s1 == IF askSys \/ askPe THEN ConfirmAction(s0, yes) ELSE s0
        s2 == IF askSys /\ can_switch THEN ClearDirtyFlag(s1)
              ELSE IF askPe /\ can_switch THEN PeClearDirtyFlag(s1)
              ELSE s1
        s3 == [s2 EXCEPT !.stacked_widget = current_row]
    IN IF can_switch
       THEN IF current_row = PROMPT_EDITOR_VIEW_INDEX
            THEN IF s3.save_target_file # None
                    /\ s3.save_target_file # s3.current_prompt_editor_file
                 THEN LET l == LoadFileIntoPeEditor(s3, disk, s3.save_target_file, io)
                      IN IF l.current_prompt_editor_file = None
                         THEN [l EXCEPT !.save_target_file = None]
                         ELSE l
                 ELSE IF s3.save_target_file = None /\ s3.current_prompt_editor_file # None
                 THEN PeCloseFile(s3, TRUE, FALSE)
                 ELSE IF s3.save_target_file = None /\ s3.current_prompt_editor_file = None
                 THEN LET c == PeMarkDirty([s3 EXCEPT !.pe_editor_text = <<>>])
                      IN [c EXCEPT !.pe_editor_enabled = FALSE,
                                   !.pe_editor_readOnly = TRUE,
                                   !.pe_save_button = FALSE,
                                   !.pe_close_button = FALSE,
                                   !.pe_filename_label = "No file open."]
                 ELSE s3
            ELSE s3
       ELSE Log([s2 EXCEPT !.nav_list = previous_index], "Reverting selection.")

OnNavChanged(s, disk, current_row, yes, io) ==
    LET previous_index == s.stacked_widget
        askSys == previous_index = SYSTEM_PROMPTS_VIEW_INDEX /\ s.system_prompt_editor_dirty
        askPe == ~askSys /\ previous_index = PROMPT_EDITOR_VIEW_INDEX /\ s.prompt_editor_dirty
        can_switch == IF askSys \/ askPe THEN yes ELSE TRUE
        s0 == Log(s, RowLine(current_row))
        s1 == IF askSys \/ askPe THEN ConfirmAction(s0, yes) ELSE s0
        s2 == IF askSys /\ can_switch THEN ClearDirtyFlag(s1)
              ELSE IF askPe /\ can_switch THEN PeClearDirtyFlag(s1)
              ELSE s1
        s3 == [s2 EXCEPT !.stacked_widget = current_row]
    IN IF can_switch
       THEN IF current_row = PROMPT_EDITOR_VIEW_INDEX
            THEN IF s3.save_target_file # None
                    /\ s3.save_target_file # s3.current_prompt_editor_file
                 THEN LoadFileIntoPeEditor(s3, disk, s3.save_target_file, io)
                 ELSE IF s3.save_target_file = None /\ s3.current_prompt_editor_file # None
                 THEN PeCloseFile(s3, TRUE, FALSE)
                 ELSE IF s3.save_target_file = None /\ s3.current_prompt_editor_file = None
                 THEN LET c == PeMarkDirty([s3 EXCEPT !.pe_editor_text = <<>>])
                      IN [c EXCEPT !.pe_editor_enabled = FALSE,
                                   !.pe_editor_readOnly = TRUE,
                                   !.pe_save_button = FALSE,
                                   !.pe_close_button = FALSE,
                                   !.pe_filename_label = "No file open."]
                 ELSE s3
            ELSE s3
       ELSE Log([s2 EXCEPT !.nav_list = previous_index], "Reverting selection.")

\* ------------------------------------------------------------------------
\* Generation save target
Separator_Short == <<"\n", "\n">> \o [i \in 1..19 |-> "="] \o <<"\n", "\n">>

Separator == <<"\n", "\n">> \o [i \in 1..20 |-> "="] \o <<"\n", "\n">>

AskSaveTargetFile(s, disk, filepath, yes, io) ==
    IF filepath # None
    THEN LET s1 == [s EXCEPT !.save_target_file = filepath]
         IN IF s1.prompt_editor_dirty
            THEN IF yes
                 THEN LoadFileIntoPeEditor(ConfirmAction(s1, TRUE), disk, filepath, io)
                 ELSE [ConfirmAction(s1, FALSE) EXCEPT
                          !.pe_filename_label = "* (Out of sync)"]
            ELSE LoadFileIntoPeEditor(s1, disk, filepath, io)
    ELSE [s EXCEPT !.save_target_file = None]

\* "Generating..." in text or "Error:" in text
InvalidGeneratedText(t) ==
    \/ t = <<>>
    \/ "Generating..." \in Range(t)
    \/ "Error: " \in Range(t)

\* Returns the window and the disk after the handler.
SaveGeneratedPrompt(s, disk, filepath, yes1, io1, wio, yes2, io2) ==
    LET generated_text == Strip(s.response_display_text)
        asked == s.save_target_file = None
        s1 == IF asked THEN AskSaveTargetFile(s, disk, filepath, yes1, io1) ELSE s
        target == s1.save_target_file
        add_sep == target \in DOMAIN disk /\ Len(disk[target]) > 0
        old == IF target \in DOMAIN disk THEN disk[target] ELSE <<>>
        disk1 == (target :> (old \o (IF add_sep THEN Separator ELSE <<>>) \o generated_text))
                 @@ disk
        s2 == Log(s1, "Appended OK")
        s3 == IF s2.save_target_file = s2.current_prompt_editor_file
              THEN IF s2.prompt_editor_dirty
                   THEN IF yes2
                        THEN LoadFileIntoPeEditor(ConfirmAction(s2, TRUE), disk1,
                                                  s2.save_target_file, io2)
                        ELSE [ConfirmAction(s2, FALSE) EXCEPT
                                 !.pe_filename_label = "* (External change)"]
                   ELSE LoadFileIntoPeEditor(s2, disk1, s2.save_target_file, io2)
              ELSE s2
    IN IF InvalidGeneratedText(generated_text)
       THEN [w |-> ShowWarningMessage(s, "Save Error"), d |-> disk]
       ELSE IF asked /\ filepath = None
       THEN [w |-> s1, d |-> disk]
       ELSE IF wio # "ok"
       THEN [w |-> ShowErrorMessage(s1, "Save Error"), d |-> disk]
       ELSE [w |-> s3, d |-> disk1]

\* ------------------------------------------------------------------------
\* Prompt editor slots
PeOpenFile_NoConfirm(s, disk, filepath, yes, io) ==
    IF filepath # None
    THEN LoadFileIntoPeEditor(Log(s, "User selected: " \o filepath), disk, filepath, io)
    ELSE s

PeOpenFile(s, disk, filepath, yes, io) ==
    IF filepath # None
    THEN LET s0 == Log(s, "User selected: " \o filepath)
         IN IF s0.prompt_editor_dirty /\ ~yes
            THEN Log(ConfirmAction(s0, FALSE), "Open cancel: Unsaved.")
            ELSE LoadFileIntoPeEditor(
                     IF s0.prompt_editor_dirty THEN ConfirmAction(s0, TRUE) ELSE s0,
                     disk, filepath, io)
    ELSE s

PeSaveFile_FailClears(s, disk, wio) ==
    IF s.current_prompt_editor_file = None
    THEN [w |-> ShowWarningMessage(s, "Save Error"), d |-> disk]
    ELSE IF ~s.prompt_editor_dirty
    THEN [w |-> s, d |-> disk]
    ELSE IF wio = "ok"
    THEN [w |-> Log(PeClearDirtyFlag([s EXCEPT !.pe_synced = s.pe_editor_text]),
                    "PE Save OK."),
          d |-> (s.current_prompt_editor_file :> s.pe_editor_text) @@ disk]
    ELSE [w |-> PeClearDirtyFlag(ShowErrorMessage(s, "Save Error")), d |-> disk]

PeSaveFile(s, disk, wio) ==
    IF s.current_prompt_editor_file = None
    THEN [w |-> ShowWarningMessage(s, "Save Error"), d |-> disk]
    ELSE IF ~s.prompt_editor_dirty
    THEN [w |-> s, d |-> disk]
    ELSE IF wio = "ok"
    THEN [w |-> Log(PeClearDirtyFlag([s EXCEPT !.pe_synced = s.pe_editor_text]),
                    "PE Save OK."),
          d |-> (s.current_prompt_editor_file :> s.pe_editor_text) @@ disk]
    ELSE [w |-> ShowErrorMessage(s, "Save Error"), d |-> disk]

\* ------------------------------------------------------------------------
\* prompt_manager: the preset repository
EndsWithTxt(n) == n \in {"default.txt", "Default.txt", "p.txt", "q.txt"}

Lower(n) == IF n = "Default.txt" THEN "default.txt" ELSE n

RECURSIVE Perms(_)
Perms(S) ==
    IF S = {} THEN {<<>>}
    ELSE UNION {{<<x>> \o p : p \in Perms(S \ {x})} : x \in S}

GetPromptPresets_NoReorder(dir, listing) == SelectSeq(listing, EndsWithTxt)

\* listing is the order in which os.listdir returns the directory
GetPromptPresets(dir, listing) ==
    LET txt == SelectSeq(listing, EndsWithTxt)
    IN IF DEFAULT_PROMPT_NAME \in Range(txt)
       THEN <<DEFAULT_PROMPT_NAME>> \o SelectSeq(txt, LAMBDA n : n # DEFAULT_PROMPT_NAME)
       ELSE txt

LoadPromptText(dir, filename) ==
    IF filename = None THEN <<>>
    ELSE IF filename \notin DOMAIN dir THEN <<>>
    ELSE dir[filename]

\* Returns the success flag and the directory after the write.
SavePromptText(dir, filename, text, wio) ==
    LET name == IF EndsWithTxt(filename) THEN filename ELSE filename \o ".txt"
    IN IF wio = "ok"
       THEN [ok |-> TRUE, d |-> (name :> text) @@ dir]
       ELSE [ok |-> FALSE, d |-> dir]

\* confirm is the answer to messagebox.askyesno
DeletePromptPreset(dir, filename, confirm, dio) ==
    IF filename = None \/ filename = DEFAULT_PROMPT_NAME
    THEN [ok |-> FALSE, d |-> dir]
    ELSE IF filename \in DOMAIN dir /\ confirm /\ dio = "ok"
    THEN [ok |-> TRUE, d |-> [n \in DOMAIN dir \ {filename} |-> dir[n]]]
    ELSE [ok |-> FALSE, d |-> dir]

\* ------------------------------------------------------------------------
\* System prompt page
SaveConfig(s) ==
    [s EXCEPT !.config = [api_type |-> s.api_type,
                          api_endpoint |-> s.api_endpoint,
                          api_key |-> s.api_key,
                          active_system_prompt |-> s.active_system_prompt_file]]

LoadActiveSystemPromptContent(s, dir) ==
    [s EXCEPT !.current_system_prompt_content =
                  LoadPromptText(dir, s.active_system_prompt_file)]

LoadSelectedPreset(s, dir) ==
    IF s.prompt_list_current # None
    THEN LET content == LoadPromptText(dir, s.prompt_list_current)
             s1 == [s EXCEPT !.system_prompt_editor_enabled = TRUE]
             \* system_prompt_editor.setPlainText(content) emits textChanged
             s2 == MarkDirty([s1 EXCEPT !.system_prompt_editor_text = content])
         IN Log(ClearDirtyFlag([s2 EXCEPT !.sp_synced = content]), "Sys editor updated")
    ELSE LET s1 == MarkDirty([s EXCEPT !.system_prompt_editor_text = <<>>])
         IN Log(ClearDirtyFlag([s1 EXCEPT !.system_prompt_editor_enabled = FALSE,
                                          !.sp_synced = <<>>]), "No selection, clear.")

OnPresetSelect(s, dir, previous_item, yes) ==
    IF s.system_prompt_editor_dirty
    THEN IF yes
         THEN LoadSelectedPreset(ConfirmAction(s, TRUE), dir)
         ELSE LET c == ConfirmAction(s, FALSE)
              IN IF previous_item # None
                 THEN [c EXCEPT !.prompt_list_current = previous_item]
                 ELSE c
    ELSE LoadSelectedPreset(s, dir)

\* prompt_list_widget.setCurrentItem / setCurrentRow with signals enabled
SetCurrentItem(s, dir, item, yes) ==
    IF s.prompt_list_current = item THEN s
    ELSE OnPresetSelect([s EXCEPT !.prompt_list_current = item], dir,
                        s.prompt_list_current, yes)

UpdatePresetList(s, dir, listing) ==
    LET selected_text == s.prompt_list_current
        found == GetPromptPresets(dir, listing)
        s1 == [s EXCEPT !.prompt_list_items = found, !.prompt_list_current = None]
    IN IF selected_text # None /\ selected_text \in Range(found)
       THEN [s1 EXCEPT !.prompt_list_current = selected_text]
       ELSE IF Len(found) > 0
       THEN LoadSelectedPreset([s1 EXCEPT !.prompt_list_current = found[1]], dir)
       ELSE LoadSelectedPreset(s1, dir)

SavePreset(s, dir, wio) ==
    IF s.prompt_list_current = None
    THEN [w |-> ShowWarningMessage(s, "Save Error"), d |-> dir]
    ELSE LET filename == s.prompt_list_current
             content == Strip(s.system_prompt_editor_text)
             r == SavePromptText(dir, filename, content, wio)
             s1 == Log(ClearDirtyFlag([s EXCEPT !.sp_synced = content]), "Preset Save OK.")
         IN IF r.ok
            THEN [w |-> IF filename = s.active_system_prompt_file
                        THEN [s1 EXCEPT !.current_system_prompt_content = content]
                        ELSE s1,
                  d |-> r.d]
            ELSE [w |-> Log(s, "Save fail."), d |-> dir]

SavePresetAs(s, dir, filename_path, wio, listing, yes) ==
    LET content == Strip(s.system_prompt_editor_text)
        base_filename == filename_path
        r == SavePromptText(dir, base_filename, content, wio)
        s1 == UpdatePresetList(Log(s, "Save As OK."), r.d, listing)
    IN IF filename_path = None
       THEN [w |-> s, d |-> dir]
       ELSE IF Lower(base_filename) = Lower(DEFAULT_PROMPT_NAME)
       THEN [w |-> ShowWarningMessage(s, "Save Prevented"), d |-> dir]
       ELSE IF r.ok
       THEN [w |-> IF base_filename \in Range(s1.prompt_list_items)
                   THEN SetCurrentItem(s1, r.d, base_filename, yes)
                   ELSE s1,
             d |-> r.d]
       ELSE [w |-> Log(s, "Save As fail."), d |-> dir]

IndexOf(seq, x) == CHOOSE i \in DOMAIN seq : seq[i] = x

Min(a, b) == IF a < b THEN a ELSE b

DeleteSelectedPreset_NoGuard(s, dir, confirm, dio, listing, yes) ==
    IF s.prompt_list_current = None
    THEN [w |-> ShowWarningMessage(s, "Delete Error"), d |-> dir]
    ELSE
      LET filename == s.prompt_list_current
          r == DeletePromptPreset(dir, filename, confirm, dio)
          s1 == IF filename = s.active_system_prompt_file
                THEN SaveConfig(LoadActiveSystemPromptContent(
                         [ShowInfoMessage(s, "Active Deleted") EXCEPT
                             !.active_system_prompt_file = DEFAULT_PROMPT_NAME], r.d))
                ELSE s
          current_row == IndexOf(s.prompt_list_items, filename)
          s2 == UpdatePresetList(Log(s1, "Delete OK"), r.d, listing)
          count == Len(s2.prompt_list_items)
          new_row == Min(current_row, count)
      IN IF r.ok
         THEN [w |-> IF count > 0
                     THEN SetCurrentItem(s2, r.d, s2.prompt_list_items[new_row], yes)
                     ELSE LoadSelectedPreset(s2, r.d),
               d |-> r.d]
         ELSE [w |-> Log(s, "Delete fail"), d |-> dir]

DeleteSelectedPreset_KeepsActive(s, dir, confirm, dio, listing, yes) ==
    IF s.prompt_list_current = None
    THEN [w |-> ShowWarningMessage(s, "Delete Error"), d |-> dir]
    ELSE
      LET filename == s.prompt_list_current
          r == DeletePromptPreset(dir, filename, confirm, dio)
          s1 == IF filename = s.active_system_prompt_file
                THEN ShowInfoMessage(s, "Active Deleted")
                ELSE s
          \* rows are counted from 0 in the source, from 1 here
          current_row == IndexOf(s.prompt_list_items, filename)
          s2 == UpdatePresetList(Log(s1, "Delete OK"), r.d, listing)
          count == Len(s2.prompt_list_items)
          new_row == Min(current_row, count)
      IN IF Lower(filename) = Lower(DEFAULT_PROMPT_NAME)
         THEN [w |-> ShowWarningMessage(s, "Delete Prevented"), d |-> dir]
         ELSE IF r.ok
         THEN [w |-> IF count > 0
                     THEN SetCurrentItem(s2, r.d, s2.prompt_list_items[new_row], yes)
                     ELSE LoadSelectedPreset(s2, r.d),
               d |-> r.d]
         ELSE [w |-> Log(s, "Delete fail"), d |-> dir]

DeleteSelectedPreset(s, dir, confirm, dio, listing, yes) ==
    IF s.prompt_list_current = None
    THEN [w |-> ShowWarningMessage(s, "Delete Error"), d |-> dir]
    ELSE
      LET filename == s.prompt_list_current
          r == DeletePromptPreset(dir, filename, confirm, dio)
          s1 == IF filename = s.active_system_prompt_file
                THEN SaveConfig(LoadActiveSystemPromptContent(
                         [ShowInfoMessage(s, "Active Deleted") EXCEPT
                             !.active_system_prompt_file = DEFAULT_PROMPT_NAME], r.d))
                ELSE s
          \* rows are counted from 0 in the source, from 1 here
          current_row == IndexOf(s.prompt_list_items, filename)
          s2 == UpdatePresetList(Log(s1, "Delete OK"), r.d, listing)
          count == Len(s2.prompt_list_items)
          new_row == Min(current_row, count)
      IN IF Lower(filename) = Lower(DEFAULT_PROMPT_NAME)
         THEN [w |-> ShowWarningMessage(s, "Delete Prevented"), d |-> dir]
         ELSE IF r.ok
         THEN [w |-> IF count > 0
                     THEN SetCurrentItem(s2, r.d, s2.prompt_list_items[new_row], yes)
                     ELSE LoadSelectedPreset(s2, r.d),
               d |-> r.d]
         ELSE [w |-> Log(s, "Delete fail"), d |-> dir]

SetActivePreset(s, dir) ==
    IF s.prompt_list_current = None
    THEN ShowWarningMessage(s, "Set Active Error")
    ELSE Log(SaveConfig(LoadActiveSystemPromptContent(
                 [s EXCEPT !.active_system_prompt_file = s.prompt_list_current], dir)),
             "Set active.")

\* ------------------------------------------------------------------------
\* utils.process_response: drop <think>...</think> blocks, then strip
RECURSIVE FirstIndex(_, _, _)
FirstIndex(t, tok, from) ==
    IF from > Len(t) THEN 0
    ELSE IF t[from] = tok THEN from
    ELSE FirstIndex(t, tok, from + 1)

RECURSIVE RemoveThink(_)
RemoveThink(t) ==
    LET i == FirstIndex(t, "<think>", 1)
        j == IF i = 0 THEN 0 ELSE FirstIndex(t, "</think>", i + 1)
    IN IF i = 0 \/ j = 0 THEN t
       ELSE SubSeq(t, 1, i - 1) \o RemoveThink(SubSeq(t, j + 1, Len(t)))

ProcessResponse(t) == Strip(RemoveThink(t))

\* ------------------------------------------------------------------------
\* api_client: what the two operations return for an outcome of the request
NetFailures == {"timeout", "connection", "badjson"}

ModelLists == {<<"llama">>, <<"mymodel">>}

GenResponses == {<<"g">>, <<"<think>", "t", "</think>", " ">>}

FetchNet == {[kind |-> "ok", models |-> m] : m \in ModelLists}
            \cup {[kind |-> k, models |-> <<>>] : k \in NetFailures}

GenNet == {[kind |-> "ok", text |-> r] : r \in GenResponses}
          \cup {[kind |-> k, text |-> <<>>] : k \in NetFailures}

\* value: the list returned; failure: the failure met, or None;
\* msgbox: show_api_error built a QMessageBox in the calling thread
FetchInstalledModels(api_endpoint, api_type, net) ==
    IF api_endpoint = <<>>
    THEN [raised |-> FALSE, value |-> <<>>, failure |-> "no endpoint", msgbox |-> TRUE]
    ELSE IF api_type \in {"Ollama", "OpenAI"}
    THEN IF net.kind = "ok"
         THEN [raised |-> FALSE, value |-> net.models, failure |-> None, msgbox |-> FALSE]
         ELSE [raised |-> FALSE, value |-> <<>>, failure |-> net.kind, msgbox |-> TRUE]
    ELSE [raised |-> FALSE, value |-> <<>>, failure |-> "unsupported type", msgbox |-> TRUE]

\* value: the dict returned, as its key and its text
GenerateText(api_endpoint, api_type, selected_model, net) ==
    IF api_endpoint = <<>>
    THEN [raised |-> FALSE, value |-> [key |-> "error", text |-> <<"no endpoint">>],
          failure |-> "no endpoint", msgbox |-> FALSE]
    ELSE IF selected_model = ""
    THEN [raised |-> FALSE, value |-> [key |-> "error", text |-> <<"no model">>],
          failure |-> "no model", msgbox |-> FALSE]
    ELSE IF api_type \in {"Ollama", "OpenAI"}
    THEN IF net.kind = "ok"
         THEN [raised |-> FALSE,
               value |-> [key |-> "response",
                          text |-> IF api_type = "OpenAI" THEN Strip(net.text)
                                   ELSE net.text],
               failure |-> None, msgbox |-> FALSE]
         ELSE [raised |-> FALSE, value |-> [key |-> "error", text |-> <<net.kind>>],
               failure |-> net.kind, msgbox |-> FALSE]
    ELSE [raised |-> FALSE, value |-> [key |-> "error", text |-> <<"unsupported type">>],
          failure |-> "unsupported type", msgbox |-> FALSE]

\* ------------------------------------------------------------------------
\* ApiWorker
NewWorker(fn, args) ==
    [fn |-> fn, args |-> args, pc |-> "queued", emitted |-> <<>>,
     result |-> None, failure |-> None, msgbox |-> FALSE]

SuccessSignal(fn) ==
    IF fn = "fetch_installed_models" THEN "models_fetched" ELSE "generation_complete"

\* The try block of ApiWorker.run: the signal emitted and its argument.
RunOutcome(fn, r) ==
    IF r.raised
    THEN [signal |-> "error", arg |-> r.value]
    ELSE [signal |-> SuccessSignal(fn), arg |-> r.value]

\* The signals ApiWorker.run emits, in order: the try or except block, then
\* the finally block.
RunEmits_FinishedFirst(fn, r) == <<"finished", RunOutcome(fn, r).signal>>

RunEmits(fn, r) == <<RunOutcome(fn, r).signal, "finished">>

\* The calls queued on the GUI thread: one for each emitted signal that has
\* a slot connected (finished has none).
Posted_Twice(t, fn, r) ==
    LET o == RunOutcome(fn, r)
    IN <<[task |-> t, signal |-> o.signal, arg |-> o.arg],
         [task |-> t, signal |-> o.signal, arg |-> o.arg]>>

Posted(t, fn, r) ==
    LET o == RunOutcome(fn, r)
    IN <<[task |-> t, signal |-> o.signal, arg |-> o.arg]>>

\* ------------------------------------------------------------------------
\* Busy state and the slots connected to the worker signals
SetBusyState(s, busy) == [s EXCEPT !.controls_enabled = ~busy]

OnModelsFetched(s, models) ==
    LET current_selection == s.model_combo_current
        none == "No models found"
        s1 == IF models # <<>>
              THEN [s EXCEPT !.model_combo_items = models,
                             !.model_combo_current =
                                 IF current_selection \in Range(models)
                                 THEN current_selection ELSE models[1]]
              ELSE [s EXCEPT !.model_combo_items = <<none>>,
                             !.model_combo_current = none]
    IN SetBusyState(s1, FALSE)

OnWorkerError(s, error_message) ==
    ShowErrorMessage(SetBusyState(s, FALSE), "API Error")

OnGenerationComplete_StaysBusy(s, result) ==
    LET cleaned_response == ProcessResponse(result.text)
        success == result.key = "response" /\ cleaned_response # <<>>
        shown == IF result.key = "response"
                 THEN IF cleaned_response # <<>> THEN cleaned_response
                      ELSE <<"Received empty response.">>
                 ELSE IF result.key = "error" THEN <<"Error: ">> \o result.text
                 ELSE <<"Error: ", "Unknown response.">>
    IN IF success
       THEN SetBusyState([s EXCEPT !.response_display_text = shown,
                                   !.response_display_readOnly = ~success,
                                   !.save_gen_button = success], FALSE)
       ELSE [s EXCEPT !.response_display_text = shown,
                      !.response_display_readOnly = ~success,
                      !.save_gen_button = success]

OnGenerationComplete(s, result) ==
    LET cleaned_response == ProcessResponse(result.text)
        success == result.key = "response" /\ cleaned_response # <<>>
        shown == IF result.key = "response"
                 THEN IF cleaned_response # <<>> THEN cleaned_response
                      ELSE <<"Received empty response.">>
                 ELSE IF result.key = "error" THEN <<"Error: ">> \o result.text
                 ELSE <<"Error: ", "Unknown response.">>
    IN SetBusyState([s EXCEPT !.response_display_text = shown,
                              !.response_display_readOnly = ~success,
                              !.save_gen_button = success], FALSE)

\* "model" in selected_model.lower() or "No models" in selected_model
InvalidModel(m) == m \in {"", "mymodel", "No models found"}

TriggerGeneration_NoTemplateCheck(s, user_input) ==
    IF InvalidModel(s.model_combo_current)
    THEN [w |-> ShowWarningMessage(s, "Input Error"), dispatch |-> FALSE]
    ELSE IF Strip(user_input) = <<>>
    THEN [w |-> ShowWarningMessage(s, "Input Error"), dispatch |-> FALSE]
    ELSE IF s.example_prompts_content = <<>>
    THEN [w |-> ShowWarningMessage(s, "Input Error"), dispatch |-> FALSE]
    ELSE [w |-> SetBusyState([s EXCEPT !.response_display_text = <<"Generating...">>,
                                       !.response_display_readOnly = TRUE,
                                       !.save_gen_button = FALSE], TRUE),
          dispatch |-> TRUE]

\* dispatch: whether a generate_text worker is started
TriggerGeneration(s, user_input) ==
    LET system_prompt_template == s.current_system_prompt_content
    IN IF InvalidModel(s.model_combo_current)
       THEN [w |-> ShowWarningMessage(s, "Input Error"), dispatch |-> FALSE]
       ELSE IF Strip(user_input) = <<>>
       THEN [w |-> ShowWarningMessage(s, "Input Error"), dispatch |-> FALSE]
       ELSE IF s.example_prompts_content = <<>>
       THEN [w |-> ShowWarningMessage(s, "Input Error"), dispatch |-> FALSE]
       ELSE IF system_prompt_template = <<>>
               \/ Head(system_prompt_template) = "Error loading"
       THEN [w |-> ShowWarningMessage(s, "System Prompt Error"), dispatch |-> FALSE]
       ELSE [w |-> SetBusyState([s EXCEPT !.response_display_text = <<"Generating...">>,
                                          !.response_display_readOnly = TRUE,
                                          !.save_gen_button = FALSE], TRUE),
             dispatch |-> TRUE]

\* ------------------------------------------------------------------------
\* Settings
RECURSIVE RStripSlash(_)
RStripSlash(t) ==
    IF t # <<>> /\ t[Len(t)] = "/" THEN RStripSlash(SubSeq(t, 1, Len(t) - 1)) ELSE t

\* The worker is created and started by the action that runs this method.
UpdateModelList(s) == SetBusyState(s, TRUE)

SaveSettings_NoSchemeCheck(s, endpoint_text, selected_api_type, api_key) ==
    LET endpoint == RStripSlash(Strip(endpoint_text))
    IN IF endpoint = <<>>
       THEN [w |-> ShowErrorMessage(s, "Settings Error"), valid |-> FALSE]
       ELSE [w |-> UpdateModelList(Log(SaveConfig([s EXCEPT !.api_type = selected_api_type,
                                                            !.api_endpoint = endpoint,
                                                            !.api_key = api_key]),
                                       "Settings Saved")),
             valid |-> TRUE]

\* valid: the settings were accepted and a model refresh follows
SaveSettings(s, endpoint_text, selected_api_type, api_key) ==
    LET endpoint == RStripSlash(Strip(endpoint_text))
    IN IF endpoint = <<>>
       THEN [w |-> ShowErrorMessage(s, "Settings Error"), valid |-> FALSE]
       ELSE IF Head(endpoint) \notin {"http://", "https://"}
       THEN [w |-> ShowErrorMessage(s, "Settings Error"), valid |-> FALSE]
       ELSE [w |-> UpdateModelList(Log(SaveConfig([s EXCEPT !.api_type = selected_api_type,
                                                            !.api_endpoint = endpoint,
                                                            !.api_key = api_key]),
                                       "Settings Saved")),
             valid |-> TRUE]

\* ------------------------------------------------------------------------
\* Initial data load, run once by the timer armed in __init__
LoadInitialDataBody(s, disk, dir, listing, yes, io) ==
    LET s1 == UpdatePresetList(UpdateModelList(s), dir, listing)
        missing == s1.active_system_prompt_file \notin Range(s1.prompt_list_items)
        s2 == IF missing
              THEN [s1 EXCEPT !.active_system_prompt_file = DEFAULT_PROMPT_NAME]
              ELSE s1
        s3 == LoadActiveSystemPromptContent(s2, dir)
        s4 == IF missing THEN SaveConfig(s3) ELSE s3
        s5 == IF s4.active_system_prompt_file \in Range(s4.prompt_list_items)
              THEN LoadSelectedPreset(
                       SetCurrentItem(s4, dir, s4.active_system_prompt_file, yes), dir)
              ELSE IF Len(s4.prompt_list_items) > 0
              THEN LoadSelectedPreset(
                       SetCurrentItem(s4, dir, s4.prompt_list_items[1], yes), dir)
              ELSE [s4 EXCEPT !.system_prompt_editor_enabled = FALSE]
        \* nav_list.setCurrentRow emits currentRowChanged when the row changes
        s6 == IF s5.nav_list # GENERATOR_VIEW_INDEX
              THEN OnNavChanged([s5 EXCEPT !.nav_list = GENERATOR_VIEW_INDEX],
                                disk, GENERATOR_VIEW_INDEX, yes, io)
              ELSE s5
    IN Log([s6 EXCEPT !.stacked_widget = GENERATOR_VIEW_INDEX], "Ready.")

\* ------------------------------------------------------------------------
\* Window close request
CloseEvent_IgnoresPeAnswer(s, disk, yes1, yes2, navyes, io) ==
    LET askSys == s.system_prompt_editor_dirty
        s1 == IF askSys THEN ConfirmAction(s, yes1) ELSE s
        can1 == IF askSys THEN yes1 ELSE TRUE
        askPe == can1 /\ s.prompt_editor_dirty
        s2 == IF askPe THEN ConfirmAction(s1, yes2) ELSE s1
        can_close == can1
        dirty_view_index == IF askPe /\ ~yes2 THEN PROMPT_EDITOR_VIEW_INDEX
                            ELSE IF askSys /\ ~yes1 THEN SYSTEM_PROMPTS_VIEW_INDEX
                            ELSE -1
    IN IF can_close
       THEN Log([s2 EXCEPT !.closed = TRUE], "Closing OK.")
       ELSE IF dirty_view_index # -1 /\ s2.stacked_widget # dirty_view_index
               /\ s2.nav_list # dirty_view_index
       THEN OnNavChanged([Log(s2, "Close cancelled.") EXCEPT
                             !.nav_list = dirty_view_index], disk,
                         dirty_view_index, navyes, io)
       ELSE Log(s2, "Close cancelled.")

CloseEvent(s, disk, yes1, yes2, navyes, io) ==
    LET askSys == s.system_prompt_editor_dirty
        s1 == IF askSys THEN ConfirmAction(s, yes1) ELSE s
        can1 == IF askSys THEN yes1 ELSE TRUE
        askPe == can1 /\ s.prompt_editor_dirty
        s2 == IF askPe THEN ConfirmAction(s1, yes2) ELSE s1
        can_close == IF askPe THEN yes2 ELSE can1
        dirty_view_index == IF askPe /\ ~yes2 THEN PROMPT_EDITOR_VIEW_INDEX
                            ELSE IF askSys /\ ~yes1 THEN SYSTEM_PROMPTS_VIEW_INDEX
                            ELSE -1
    IN IF can_close
       THEN Log([s2 EXCEPT !.closed = TRUE], "Closing OK.")
       ELSE IF dirty_view_index # -1 /\ s2.stacked_widget # dirty_view_index
               /\ s2.nav_list # dirty_view_index
       THEN OnNavChanged([Log(s2, "Close cancelled.") EXCEPT
                             !.nav_list = dirty_view_index], disk,
                         dirty_view_index, navyes, io)
       ELSE Log(s2, "Close cancelled.")

\* ------------------------------------------------------------------------
\* State after MainWindow.__init__
DEFAULT_CONFIG ==
    [api_type |-> "Ollama", api_endpoint |-> <<"http://", "h">>, api_key |-> "",
     active_system_prompt |-> DEFAULT_PROMPT_NAME]

\* Contents of config.json that load_config accepts
Configs ==
    {DEFAULT_CONFIG,
     [DEFAULT_CONFIG EXCEPT !.api_type = "Other"],
     [DEFAULT_CONFIG EXCEPT !.api_endpoint = <<>>]}

NewWindow(config) ==
    [config |-> config,
     api_endpoint |-> config.api_endpoint,
     api_type |-> config.api_type,
     api_key |-> config.api_key,
     active_system_prompt_file |-> config.active_system_prompt,
     current_system_prompt_content |-> <<>>,
     example_prompts_content |-> <<>>,
     save_target_file |-> None,
     system_prompt_editor_dirty |-> FALSE,
     prompt_editor_dirty |-> FALSE,
     current_prompt_editor_file |-> None,
     nav_list |-> GENERATOR_VIEW_INDEX,
     stacked_widget |-> GENERATOR_VIEW_INDEX,
     model_combo_items |-> <<>>,
     model_combo_current |-> "",
     response_display_text |-> <<>>,
     response_display_readOnly |-> TRUE,
     save_gen_button |-> FALSE,
     pe_editor_text |-> <<>>,
     pe_editor_enabled |-> FALSE,
     pe_editor_readOnly |-> TRUE,
     pe_filename_label |-> "No file open.",
     pe_save_button |-> FALSE,
     pe_close_button |-> FALSE,
     prompt_list_items |-> <<>>,
     prompt_list_current |-> None,
     system_prompt_editor_text |-> <<>>,
     system_prompt_editor_enabled |-> FALSE,
     save_button |-> FALSE,
     controls_enabled |-> TRUE,
     closed |-> FALSE,
     log |-> <<>>,
     pe_synced |-> <<>>,
     sp_synced |-> <<>>]

InitDisk ==
    /\ files = ("a.txt" :> <<"x">>)
    /\ presets = ("default.txt" :> <<"d">>) @@ ("p.txt" :> <<"p">>)
    /\ tasks = <<>>
    /\ queue = <<>>
    /\ timer = TRUE

\* First start: config.json is created from the defaults.
Init == self = NewWindow(DEFAULT_CONFIG) /\ InitDisk

InitTasks == (\E config \in Configs : self = NewWindow(config)) /\ InitDisk

\* ------------------------------------------------------------------------
\* Actions.  A slot runs when its widget is enabled and its page is shown.
\* The timer fires inside the event loop of any modal dialog, so a slot that
\* needs a dialog or typed text completes only after _load_initial_data.
\* The preset directory as the program can find it at start: the default file
\* is written only when the directory itself had to be created, so an existing
\* directory may hold any files, with or without the .txt suffix, or none.
DirNames == {"default.txt", "p.txt", "notes.md"}

DirText(n) == IF n = "default.txt" THEN <<"d">> ELSE IF n = "p.txt" THEN <<"p">> ELSE <<"n">>

InitDirs ==
    /\ self = NewWindow(DEFAULT_CONFIG)
    /\ files = ("a.txt" :> <<"x">>)
    /\ \E S \in SUBSET DirNames : presets = [n \in S |-> DirText(n)]
    /\ tasks = <<>>
    /\ queue = <<>>
    /\ timer = TRUE

Open == ~self.closed

Ready == Open /\ ~timer

Shown(index) == self.stacked_widget = index

\* A worker lives from threadpool.start until it has finished and its signal
\* has been handled; at most MaxTasks workers live at a time, one of them
\* kept for the timer.
CanDispatch == Cardinality(DOMAIN tasks) + (IF timer THEN 1 ELSE 0) < MaxTasks

NewId == CHOOSE i \in 1..MaxTasks : i \notin DOMAIN tasks /\ \A j \in 1..(i - 1) : j \in DOMAIN tasks

Start(worker) == (NewId :> worker) @@ tasks

FetchWorker(s) ==
    NewWorker("fetch_installed_models",
              [api_endpoint |-> s.api_endpoint, api_type |-> s.api_type,
               selected_model |-> ""])

LoadInitialData ==
    /\ timer /\ Open
    /\ \E listing \in Perms(DOMAIN presets), yes \in BOOLEAN, io \in IO :
         self' = LoadInitialDataBody(Begin(self),
                                     files, presets, listing, yes, io)
    /\ tasks' = Start(FetchWorker(self))
    /\ timer' = FALSE
    /\ UNCHANGED <<files, presets, queue>>

NavClick ==
    /\ Open /\ self.controls_enabled
    /\ \E row \in Views \ {self.nav_list}, yes \in BOOLEAN, io \in IO :
         self' = OnNavChanged(Begin([self EXCEPT !.nav_list = row]),
                              files, row, yes, io)
    /\ UNCHANGED <<files, presets, tasks, queue, timer>>

RefreshClick ==
    /\ Open /\ self.controls_enabled /\ Shown(GENERATOR_VIEW_INDEX) /\ CanDispatch
    /\ self' = UpdateModelList(Begin(self))
    /\ tasks' = Start(FetchWorker(self))
    /\ UNCHANGED <<files, presets, queue, timer>>

SaveSettingsClick ==
    /\ Ready /\ self.controls_enabled /\ Shown(SETTINGS_VIEW_INDEX) /\ CanDispatch
    /\ \E endpoint_text \in EndpointTexts, type \in ApiTypes :
         LET r == SaveSettings(Begin(self), endpoint_text, type, "")
         IN /\ self' = r.w
            /\ tasks' = IF r.valid THEN Start(FetchWorker(r.w)) ELSE tasks
    /\ UNCHANGED <<files, presets, queue, timer>>

LoadExamplesClick ==
    /\ Ready /\ self.controls_enabled /\ Shown(GENERATOR_VIEW_INDEX)
    /\ \E content \in {<<>>, <<"ex">>}, io \in IO :
         self' = IF io = "ok"
                 THEN [Begin(self) EXCEPT
                          !.example_prompts_content = content]
                 ELSE ShowErrorMessage(
                          [Begin(self) EXCEPT
                              !.example_prompts_content = <<>>], "File Error")
    /\ UNCHANGED <<files, presets, tasks, queue, timer>>

GenerateClick ==
    /\ Ready /\ self.controls_enabled /\ Shown(GENERATOR_VIEW_INDEX) /\ CanDispatch
    /\ \E user_input \in GoalTexts :
         LET r == TriggerGeneration(Begin(self), user_input)
         IN /\ self' = r.w
            /\ tasks' = IF r.dispatch
                        THEN Start(
                                 NewWorker("generate_text",
                                     [api_endpoint |-> self.api_endpoint,
                                      api_type |-> self.api_type,
                                      selected_model |-> self.model_combo_current]))
                        ELSE tasks
    /\ UNCHANGED <<files, presets, queue, timer>>

SaveGeneratedClick ==
    /\ Ready /\ self.save_gen_button /\ Shown(GENERATOR_VIEW_INDEX)
    /\ \E filepath \in Paths \cup {None}, yes1 \in BOOLEAN, io1 \in IO, wio \in IO,
          yes2 \in BOOLEAN, io2 \in IO :
         LET r == SaveGeneratedPrompt(Begin(self), files,
                                      filepath, yes1, io1, wio, yes2, io2)
         IN /\ \A f \in DOMAIN r.d : Len(r.d[f]) <= MaxFileLen
            /\ self' = r.w
            /\ files' = r.d
    /\ UNCHANGED <<presets, tasks, queue, timer>>

PeOpenClick ==
    /\ Ready /\ Shown(PROMPT_EDITOR_VIEW_INDEX)
    /\ \E filepath \in DOMAIN files \cup {None}, yes \in BOOLEAN, io \in IO :
         self' = PeOpenFile(Begin(self), files, filepath, yes, io)
    /\ UNCHANGED <<files, presets, tasks, queue, timer>>

PeSaveClick ==
    /\ Ready /\ Shown(PROMPT_EDITOR_VIEW_INDEX) /\ self.pe_save_button
    /\ \E wio \in IO :
         LET r == PeSaveFile(Begin(self), files, wio)
         IN self' = r.w /\ files' = r.d
    /\ UNCHANGED <<presets, tasks, queue, timer>>

PeCloseClick ==
    /\ Ready /\ Shown(PROMPT_EDITOR_VIEW_INDEX) /\ self.pe_close_button
    /\ \E yes \in BOOLEAN :
         self' = PeCloseFile(Begin(self), FALSE, yes)
    /\ UNCHANGED <<files, presets, tasks, queue, timer>>

\* The user edits the text of the prompt editor; textChanged runs _pe_mark_dirty.
PeType ==
    /\ Ready /\ Shown(PROMPT_EDITOR_VIEW_INDEX)
    /\ self.pe_editor_enabled /\ ~self.pe_editor_readOnly
    /\ \E text \in EditTexts \ {self.pe_editor_text} :
         self' = PeMarkDirty([Begin(self) EXCEPT !.pe_editor_text = text])
    /\ UNCHANGED <<files, presets, tasks, queue, timer>>

\* The user edits the text of the system prompt editor; textChanged runs _mark_dirty.
SysType ==
    /\ Ready /\ Shown(SYSTEM_PROMPTS_VIEW_INDEX) /\ self.system_prompt_editor_enabled
    /\ \E text \in EditTexts \ {self.system_prompt_editor_text} :
         self' = MarkDirty([Begin(self) EXCEPT
                               !.system_prompt_editor_text = text])
    /\ UNCHANGED <<files, presets, tasks, queue, timer>>

\* The answers the confirmation dialog of the system prompt page can give in
\* state s: it is shown only while the editor is dirty.
SysAnswers(s) == IF s.system_prompt_editor_dirty THEN BOOLEAN ELSE {TRUE}

PresetSelectClick ==
    /\ Ready /\ Shown(SYSTEM_PROMPTS_VIEW_INDEX)
    /\ \E item \in Range(self.prompt_list_items) \ {self.prompt_list_current},
          yes \in SysAnswers(self) :
         self' = SetCurrentItem(Begin(self), presets, item, yes)
    /\ UNCHANGED <<files, presets, tasks, queue, timer>>

LoadPresetClick ==
    /\ Ready /\ Shown(SYSTEM_PROMPTS_VIEW_INDEX)
    /\ self' = LoadSelectedPreset(Begin(self), presets)
    /\ UNCHANGED <<files, presets, tasks, queue, timer>>

SavePresetClick ==
    /\ Ready /\ Shown(SYSTEM_PROMPTS_VIEW_INDEX) /\ self.save_button
    /\ \E wio \in IO :
         LET r == SavePreset(Begin(self), presets, wio)
         IN self' = r.w /\ presets' = r.d
    /\ UNCHANGED <<files, tasks, queue, timer>>

SavePresetAsClick ==
    /\ Ready /\ Shown(SYSTEM_PROMPTS_VIEW_INDEX)
    /\ \E filename_path \in SaveAsNames \cup {None}, wio \in IO,
          yes \in SysAnswers(self) :
         LET r == SavePromptText(presets, filename_path, <<>>, wio)
         IN \E listing \in Perms(DOMAIN r.d) :
              LET h == SavePresetAs(Begin(self), presets,
                                    filename_path, wio, listing, yes)
              IN self' = h.w /\ presets' = h.d
    /\ UNCHANGED <<files, tasks, queue, timer>>

DeletePresetClick ==
    /\ Ready /\ Shown(SYSTEM_PROMPTS_VIEW_INDEX)
    /\ \E confirm \in BOOLEAN, dio \in IO, yes \in SysAnswers(self) :
         LET r == DeletePromptPreset(presets, self.prompt_list_current, confirm, dio)
         IN \E listing \in Perms(DOMAIN r.d) :
              LET h == DeleteSelectedPreset(Begin(self),
                                            presets, confirm, dio, listing, yes)
              IN self' = h.w /\ presets' = h.d
    /\ UNCHANGED <<files, tasks, queue, timer>>

SetActiveClick ==
    /\ Ready /\ Shown(SYSTEM_PROMPTS_VIEW_INDEX)
    /\ self' = SetActivePreset(Begin(self), presets)
    /\ UNCHANGED <<files, presets, tasks, queue, timer>>

CloseWindow ==
    /\ Open
    /\ \E yes1 \in BOOLEAN, yes2 \in BOOLEAN, navyes \in BOOLEAN, io \in IO :
         self' = CloseEvent(Begin(self), files, yes1, yes2, navyes, io)
    /\ UNCHANGED <<files, presets, tasks, queue, timer>>

\* ------------------------------------------------------------------------
\* Worker threads
\* ApiWorker.run on a pool thread: the operation is called with the outcome
\* net of its request, and the signals are emitted.
WorkerRun ==
    \E t \in DOMAIN tasks :
      /\ tasks[t].pc = "queued"
      /\ \E net \in (IF tasks[t].fn = "fetch_installed_models" THEN FetchNet ELSE GenNet) :
           LET a == tasks[t].args
               r == IF tasks[t].fn = "fetch_installed_models"
                    THEN FetchInstalledModels(a.api_endpoint, a.api_type, net)
                    ELSE GenerateText(a.api_endpoint, a.api_type, a.selected_model, net)
               o == RunOutcome(tasks[t].fn, r)
           IN /\ tasks' = [tasks EXCEPT ![t].pc = "finished",
                                        ![t].emitted = RunEmits(tasks[t].fn, r),
                                        ![t].result = o,
                                        ![t].failure = r.failure,
                                        ![t].msgbox = r.msgbox]
              /\ queue' = queue \o Posted(t, tasks[t].fn, r)
      /\ UNCHANGED <<self, files, presets, timer>>

\* The GUI thread runs the slot connected to the signal at the head of its
\* queue; the worker is gone once its outcome has been handled.
Deliver ==
    /\ Open /\ queue # <<>>
    /\ LET m == Head(queue)
       IN /\ self' = IF m.signal = "models_fetched"
                     THEN OnModelsFetched(Begin(self), m.arg)
                     ELSE IF m.signal = "generation_complete"
                     THEN OnGenerationComplete(Begin(self), m.arg)
                     ELSE OnWorkerError(Begin(self), m.arg)
          /\ tasks' = [i \in DOMAIN tasks \ {m.task} |-> tasks[i]]
    /\ queue' = Tail(queue)
    /\ UNCHANGED <<files, presets, timer>>

\* The prompt editor's edit session, the save target and navigation.
Next ==
    \/ LoadInitialData
    \/ NavClick
    \/ LoadExamplesClick
    \/ GenerateClick
    \/ SaveGeneratedClick
    \/ PeOpenClick
    \/ PeSaveClick
    \/ PeCloseClick
    \/ PeType
    \/ WorkerRun
    \/ Deliver

\* The task coordinator: every slot that starts a worker, and the workers.
NextTasks ==
    \/ LoadInitialData
    \/ NavClick
    \/ RefreshClick
    \/ SaveSettingsClick
    \/ LoadExamplesClick
    \/ GenerateClick
    \/ WorkerRun
    \/ Deliver

\* The system prompt page and the preset repository.
NextPresets ==
    \/ LoadInitialData
    \/ NavClick
    \/ SysType
    \/ PresetSelectClick
    \/ SavePresetAsClick
    \/ DeletePresetClick
    \/ SetActiveClick
    \/ WorkerRun
    \/ Deliver

\* Navigation with both editors in use.
NextNav ==
    \/ LoadInitialData
    \/ NavClick
    \/ PeOpenClick
    \/ PeType
    \/ PeSaveClick
    \/ PeCloseClick
    \/ SysType
    \/ PresetSelectClick
    \/ LoadPresetClick
    \/ SavePresetClick
    \/ WorkerRun
    \/ Deliver

\* Both editors and the close request of the window.
NextClose ==
    \/ LoadInitialData
    \/ NavClick
    \/ PeOpenClick
    \/ PeType
    \/ SysType
    \/ CloseWindow
    \/ WorkerRun
    \/ Deliver

\* Both editors over the preset directories a start can find.
NextDirs ==
    \/ LoadInitialData
    \/ NavClick
    \/ LoadExamplesClick
    \/ GenerateClick
    \/ PeOpenClick
    \/ PeType
    \/ PeCloseClick
    \/ SysType
    \/ PresetSelectClick
    \/ WorkerRun
    \/ Deliver

Spec == Init /\ [][Next]_vars

SpecTasks == InitTasks /\ [][NextTasks]_vars

\* The thread pool runs every queued worker and the event loop of the GUI
\* thread runs every queued slot call.
RunTask(t) ==
    /\ t \in DOMAIN tasks
    /\ tasks[t].pc = "queued"
    /\ WorkerRun
    /\ tasks'[t].pc = "finished"

SpecTasksFair ==
    /\ SpecTasks
    /\ \A t \in 1..MaxTasks : WF_vars(RunTask(t))
    /\ WF_vars(Deliver)

SpecPresets == Init /\ [][NextPresets]_vars

SpecNav == Init /\ [][NextNav]_vars

SpecDirs == InitDirs /\ [][NextDirs]_vars

SpecClose == Init /\ [][NextClose]_vars

\* ------------------------------------------------------------------------
\* What the last handler printed
Logged(s, line) == line \in Range(s.log)

ConfirmedBefore(s, line) ==
    \E i, j \in DOMAIN s.log :
        i < j /\ s.log[i] = "User confirmation: True" /\ s.log[j] = line

PeLoadSaveOrClose(s) ==
    \/ Logged(s, "PE Load OK.")
    \/ Logged(s, "PE Save OK.")
    \/ Logged(s, "Prompt file closed.")

SysLoadOrSave(s) ==
    \/ Logged(s, "Sys editor updated")
    \/ Logged(s, "No selection, clear.")
    \/ Logged(s, "Preset Save OK.")

\* ------------------------------------------------------------------------
\* C1: once an enabled edit session has been mutated, its dirty flag stays
\* true until the next load, successful save or close of that session; no
\* other operation, an accepted navigation included, clears it.
C1_DirtyUntilLoadSaveClose ==
    [][/\ (self.prompt_editor_dirty /\ ~self'.prompt_editor_dirty)
              => PeLoadSaveOrClose(self')
       /\ (self.system_prompt_editor_dirty /\ ~self'.system_prompt_editor_dirty)
              => SysLoadOrSave(self')]_vars

\* C2: whenever an edit session's dirty flag is false, its buffer holds the
\* content last loaded from or saved to its backing file.
C2_CleanBufferIsSynced ==
    /\ ~self.prompt_editor_dirty => self.pe_editor_text = self.pe_synced
    /\ ~self.system_prompt_editor_dirty
           => self.system_prompt_editor_text = self.sp_synced

\* C3: the prompt editor's content is never replaced by a reload from disk
\* while it is dirty, unless the user confirmed the discard first.
C3_NoReloadOfDirtyEditorUnconfirmed ==
    [][(self.prompt_editor_dirty /\ Logged(self', "PE Load OK."))
           => ConfirmedBefore(self', "PE Load OK.")]_vars

C3_Witness ==
    /\ ConfirmedBefore(self, "PE Load OK.")
    /\ self.pe_editor_text = self.pe_synced
    /\ ~self.prompt_editor_dirty

\* C4: whenever the generation target is a path different from the prompt
\* editor's backing path, the binding is marked out-of-sync.
C4_DivergenceIsMarked ==
    (self.save_target_file # None
     /\ self.save_target_file # self.current_prompt_editor_file)
        => self.pe_filename_label = "* (Out of sync)"

\* C5: a load into the prompt editor that fails leaves the editor's content,
\* backing path, dirty flag and enabled state and the generation target as
\* they were when the load was attempted (the target may have been chosen
\* by the same handler just before the load).
C5_FailedLoadChangesNothing ==
    [][Logged(self', "ERROR: File Error")
           => /\ self'.pe_editor_text = self.pe_editor_text
              /\ self'.current_prompt_editor_file = self.current_prompt_editor_file
              /\ self'.prompt_editor_dirty = self.prompt_editor_dirty
              /\ self'.pe_editor_enabled = self.pe_editor_enabled
              /\ \/ self'.save_target_file = self.save_target_file
                 \/ self.save_target_file = None]_vars

\* C6: for every dispatched worker exactly one of the success signal and
\* the error signal is emitted, once, and finished is emitted once, after
\* it, as the last signal of the worker.
C6_OneOutcomeThenFinished ==
    \A t \in DOMAIN tasks :
        /\ tasks[t].pc = "queued" => tasks[t].emitted = <<>>
        /\ tasks[t].pc = "finished"
               => /\ Len(tasks[t].emitted) = 2
                  /\ tasks[t].emitted[1] \in {SuccessSignal(tasks[t].fn), "error"}
                  /\ tasks[t].emitted[2] = "finished"

C6_Witness ==
    \E t \in DOMAIN tasks :
        tasks[t].pc = "finished" /\ tasks[t].emitted = <<"generation_complete", "finished">>

\* C7: every failure of a task (connection failure, timeout, malformed
\* payload, missing endpoint or model, unsupported API type) is delivered
\* through the error signal, never through the success signal.
C7_FailuresUseErrorSignal ==
    \A t \in DOMAIN tasks :
        (tasks[t].pc = "finished" /\ tasks[t].failure # None)
            => tasks[t].result.signal = "error"

\* C8: while a dispatched task's outcome has not been handled, the
\* controls that dispatch a task and the navigation list stay disabled.
C8_BusyWhileTaskInFlight ==
    DOMAIN tasks # {} => ~self.controls_enabled

\* C9: when two fetch workers run concurrently, each has exactly one
\* outcome queued for its slot once it has run and none before, the
\* outcome is the worker's own, and no queued outcome belongs to a worker
\* whose outcome was already handled.
MessagesOf(t) == {i \in DOMAIN queue : queue[i].task = t}

C9_OneOutcomePerConcurrentFetch ==
    /\ \A i \in DOMAIN queue : queue[i].task \in DOMAIN tasks
    /\ \A t \in DOMAIN tasks :
           /\ tasks[t].pc = "queued" => MessagesOf(t) = {}
           /\ tasks[t].pc = "finished"
                  => /\ Cardinality(MessagesOf(t)) = 1
                     /\ \A i \in MessagesOf(t) :
                            /\ queue[i].signal = tasks[t].result.signal
                            /\ queue[i].arg = tasks[t].result.arg

C9_Witness ==
    \E t, u \in DOMAIN tasks :
        /\ t < u
        /\ tasks[t].fn = "fetch_installed_models" /\ tasks[t].pc = "finished"
        /\ tasks[u].fn = "fetch_installed_models" /\ tasks[u].pc = "finished"
        /\ tasks[t].result.arg # tasks[u].result.arg
        /\ Len(queue) = 2 /\ queue[1].task = u /\ queue[2].task = t

\* C10: no step of a background task performs an interactive UI action.
C10_NoUiActionInWorker ==
    \A t \in DOMAIN tasks : ~tasks[t].msgbox

\* ------------------------------------------------------------------------
\* The fields of the two edit sessions a declined confirmation must keep
PeSession(s) ==
    [content |-> s.pe_editor_text,
     backingPath |-> s.current_prompt_editor_file,
     dirty |-> s.prompt_editor_dirty,
     enabled |-> s.pe_editor_enabled]

SysSession(s) ==
    [content |-> s.system_prompt_editor_text,
     backingPath |-> s.prompt_list_current,
     dirty |-> s.system_prompt_editor_dirty,
     enabled |-> s.system_prompt_editor_enabled]

\* C11: when a transition away from a view with a dirty edit session is
\* declined, the view shown stays the view being left, the sidebar row is
\* reverted to it, and both sessions keep content, backing path and dirty
\* flag.
C11_DeclinedTransitionAborted ==
    [][Logged(self', "Reverting selection.")
           => /\ self'.stacked_widget = self.stacked_widget
              /\ self'.nav_list = self.stacked_widget
              /\ PeSession(self') = PeSession(self)
              /\ SysSession(self') = SysSession(self)]_vars

C11_Witness ==
    /\ Logged(self, "Reverting selection.")
    /\ self.system_prompt_editor_dirty
    /\ self.stacked_widget = SYSTEM_PROMPTS_VIEW_INDEX
    /\ self.nav_list = SYSTEM_PROMPTS_VIEW_INDEX
    /\ self.current_prompt_editor_file # None

Asked(s) ==
    Logged(s, "User confirmation: True") \/ Logged(s, "User confirmation: False")

C13_EditorMatchesTargetOnEntry ==
    [][(self.stacked_widget # PROMPT_EDITOR_VIEW_INDEX
        /\ self'.stacked_widget = PROMPT_EDITOR_VIEW_INDEX)
           => /\ self'.current_prompt_editor_file = self'.save_target_file
              /\ self'.save_target_file = None
                     => (self'.pe_editor_text = <<>> /\ ~self'.pe_editor_enabled)]_vars

\* C15: an append of generated text keeps the bytes already in the target
\* and every other file, writes exactly the text when the target is absent
\* or empty, and exactly two newlines, twenty '=' and two newlines followed
\* by the text when the target exists and is not empty.
C15_AppendWritesSeparatorAndText ==
    [][Logged(self', "Appended OK")
           => \E f \in DOMAIN files' :
                LET old == IF f \in DOMAIN files THEN files[f] ELSE <<>>
                    text == Strip(self.response_display_text)
                    sep == <<"\n", "\n",
                             "=", "=", "=", "=", "=", "=", "=", "=", "=", "=",
                             "=", "=", "=", "=", "=", "=", "=", "=", "=", "=",
                             "\n", "\n">>
                IN /\ self.save_target_file # None => f = self.save_target_file
                   /\ DOMAIN files' = DOMAIN files \cup {f}
                   /\ \A g \in DOMAIN files \ {f} : files'[g] = files[g]
                   /\ text # <<>>
                   /\ files'[f] = IF old = <<>> THEN text ELSE old \o sep \o text]_vars

C15_Witness ==
    /\ Logged(self, "Appended OK")
    /\ "b.txt" \in DOMAIN files
    /\ Len(files["b.txt"]) = 26
    /\ files["b.txt"][1] = "g"
    /\ files["b.txt"][26] = "g"
    /\ files["a.txt"] = <<"x">>

\* C16: when generated text is appended while the target is the prompt
\* editor's backing path and the editor is clean, afterwards the editor's
\* content equals the new content of the file and the editor is clean.
C16_CleanEditorReflectsAppend ==
    [][(/\ Logged(self', "Appended OK")
        /\ self.save_target_file # None
        /\ self.save_target_file = self.current_prompt_editor_file
        /\ ~self.prompt_editor_dirty)
           => /\ self'.pe_editor_text = files'[self.save_target_file]
              /\ self'.current_prompt_editor_file = self.save_target_file
              /\ ~self'.prompt_editor_dirty]_vars

\* C18: after a successful open of a file in the prompt editor the
\* generation target and the editor's backing path are the opened path, the
\* editor shows the file, is enabled and writable and is clean; an open
\* declined for a dirty editor leaves editor and target unchanged.
C18_OpenBindsTargetToEditor ==
    [][/\ (self.stacked_widget = PROMPT_EDITOR_VIEW_INDEX /\ Logged(self', "PE Load OK."))
              => \E filepath \in DOMAIN files :
                   /\ Logged(self', "User selected: " \o filepath)
                   /\ self'.current_prompt_editor_file = filepath
                   /\ self'.save_target_file = filepath
                   /\ self'.pe_editor_text = files[filepath]
                   /\ self'.pe_editor_enabled
                   /\ ~self'.pe_editor_readOnly
                   /\ ~self'.prompt_editor_dirty
       /\ Logged(self', "Open cancel: Unsaved.")
              => /\ self.prompt_editor_dirty
                 /\ PeSession(self') = PeSession(self)
                 /\ self'.pe_editor_readOnly = self.pe_editor_readOnly
                 /\ self'.save_target_file = self.save_target_file]_vars

C18_Witness ==
    /\ Logged(self, "User selected: b.txt")
    /\ Logged(self, "PE Load OK.")
    /\ self.current_prompt_editor_file = "b.txt"
    /\ self.save_target_file = "b.txt"
    /\ self.stacked_widget = PROMPT_EDITOR_VIEW_INDEX

\* C19: a close of the prompt editor that goes through (accepted or
\* forced) empties the editor, clears its backing path and dirty flag and
\* disables it, and clears the generation target exactly when the target
\* was the editor's path; another target is left as it was.
C19_CloseClearsEditorAndOwnTarget ==
    [][Logged(self', "Prompt file closed.")
           => /\ self'.pe_editor_text = <<>>
              /\ self'.current_prompt_editor_file = None
              /\ ~self'.prompt_editor_dirty
              /\ ~self'.pe_editor_enabled
              /\ self'.pe_editor_readOnly
              /\ self'.save_target_file =
                     IF self.current_prompt_editor_file = self.save_target_file
                     THEN None ELSE self.save_target_file]_vars

C19_Witness ==
    /\ self.log = <<"User confirmation: True", "Prompt file closed.">>
    /\ self.current_prompt_editor_file = None
    /\ self.save_target_file = None
    /\ ~self.pe_editor_enabled

\* C20: a close of a dirty prompt editor that is not forced and whose
\* confirmation is declined leaves the editor's content, backing path,
\* dirty flag and enabled state and the generation target unchanged.
C20_DeclinedCloseChangesNothing ==
    [][Logged(self', "Close cancel.")
           => /\ self.prompt_editor_dirty
              /\ PeSession(self') = PeSession(self)
              /\ self'.pe_editor_readOnly = self.pe_editor_readOnly
              /\ self'.save_target_file = self.save_target_file]_vars

C20_Witness ==
    /\ Logged(self, "Close cancel.")
    /\ self.prompt_editor_dirty
    /\ self.current_prompt_editor_file # None
    /\ self.pe_editor_text # self.pe_synced

\* C21: a save writes the session's text to its backing file and clears the
\* dirty flag only when the write succeeds (the preset save writes the text as
\* the handler takes it from the editor, surrounding whitespace removed); when
\* the write fails or there is no backing path / selected preset, nothing is
\* reported as saved, nothing is written, and the dirty flag and the content of
\* both sessions are unchanged, so the save can be retried.
SaveFailed(s) ==
    \/ Logged(s, "ERROR: Save Error")
    \/ Logged(s, "WARNING: Save Error")
    \/ Logged(s, "Save fail.")

C22_SaveThenLoadRestoresContent ==
    [][/\ Logged(self', "PE Save OK.") =>
            LoadFileIntoPeEditor(self', files', self.current_prompt_editor_file,
                                 "ok").pe_editor_text = self.pe_editor_text
       /\ Logged(self', "Preset Save OK.") =>
            LoadSelectedPreset(self', presets').system_prompt_editor_text
                = self.system_prompt_editor_text]_vars

\* C24: for every file name entered in "Save As New", the operation never
\* writes to the default preset file: a name that resolves to it (with or
\* without the .txt suffix, in any letter case) is rejected with the preset
\* directory, the list and the editor session unchanged.
SaveAsStep ==
    \/ Logged(self', "Save As OK.")
    \/ Logged(self', "Save As fail.")
    \/ Logged(self', "WARNING: Save Prevented")

C24_SaveAsNeverWritesDefault ==
    [][SaveAsStep =>
         /\ DEFAULT_PROMPT_NAME \in DOMAIN presets =>
               /\ DEFAULT_PROMPT_NAME \in DOMAIN presets'
               /\ presets'[DEFAULT_PROMPT_NAME] = presets[DEFAULT_PROMPT_NAME]
         /\ Logged(self', "WARNING: Save Prevented") =>
               /\ presets' = presets
               /\ self'.prompt_list_items = self.prompt_list_items
               /\ SysSession(self') = SysSession(self)]_vars

\* C25: a delete request for the preset named as the default is rejected
\* without invoking the underlying delete (neither its success nor its
\* failure is reported): no file is removed, and the active preset, its cached
\* content and the preset list are unchanged.
DeleteStep ==
    \/ Logged(self', "Delete OK")
    \/ Logged(self', "Delete fail")
    \/ Logged(self', "WARNING: Delete Prevented")

C25_DeleteOfDefaultRejected ==
    [][(DeleteStep /\ self.prompt_list_current = DEFAULT_PROMPT_NAME) =>
         /\ Logged(self', "WARNING: Delete Prevented")
         /\ ~Logged(self', "Delete OK") /\ ~Logged(self', "Delete fail")
         /\ presets' = presets
         /\ self'.active_system_prompt_file = self.active_system_prompt_file
         /\ self'.current_system_prompt_content = self.current_system_prompt_content
         /\ self'.config = self.config
         /\ self'.prompt_list_items = self.prompt_list_items
         /\ self'.prompt_list_current = self.prompt_list_current]_vars

C25_Witness ==
    /\ Logged(self, "WARNING: Delete Prevented")
    /\ self.prompt_list_current = DEFAULT_PROMPT_NAME
    /\ DEFAULT_PROMPT_NAME \in DOMAIN presets
    /\ Len(self.prompt_list_items) > 1

\* C26: the content of a dirty system-prompt session is replaced or cleared by
\* a load (Load button, list-selection change, list refresh) only after an
\* affirmative confirmation; when the confirmation is declined the editor
\* content and the dirty flag are unchanged.
SysLoaded(s) ==
    \/ Logged(s, "Sys editor updated")
    \/ Logged(s, "No selection, clear.")

C26_DirtyPresetReplacedOnlyAfterConfirm ==
    [][self.system_prompt_editor_dirty =>
         /\ SysLoaded(self') => Logged(self', "User confirmation: True")
         /\ Logged(self', "User confirmation: False") =>
               /\ self'.system_prompt_editor_text = self.system_prompt_editor_text
               /\ self'.system_prompt_editor_dirty]_vars

\* C27: every dispatched task whose operation terminates is eventually handled
\* with the busy state cleared, whatever its outcome, and handling an outcome
\* dispatches nothing: the step that runs a slot starts no worker and leaves
\* the controls enabled, and a worker that has run is never run again.
C27_BusyEventuallyCleared ==
    /\ \A t \in 1..MaxTasks :
         (t \in DOMAIN tasks) ~> (t \notin DOMAIN tasks /\ self.controls_enabled)
    /\ [][/\ Len(queue') < Len(queue) =>
              /\ DOMAIN tasks' = DOMAIN tasks \ {Head(queue).task}
              /\ self'.controls_enabled
         /\ \A t \in DOMAIN tasks \cap DOMAIN tasks' :
              tasks[t].pc = "finished" => tasks'[t].pc = "finished"]_vars

C27_Witness ==
    /\ tasks = <<>>
    /\ self.controls_enabled
    /\ self.response_display_text # <<>>
    /\ Head(self.response_display_text) = "Error: "

\* C28: in every reachable state, an edit signal received by a session that is
\* disabled (or, for the prompt editor, read-only) is a no-op: the dirty flag
\* and the save control's enabled state are unchanged; an edit signal received
\* by an enabled session sets its dirty flag.
C28_EditSignalOnDisabledSessionIsNoOp ==
    /\ (~self.pe_editor_enabled \/ self.pe_editor_readOnly) =>
          /\ PeMarkDirty(self).prompt_editor_dirty = self.prompt_editor_dirty
          /\ PeMarkDirty(self).pe_save_button = self.pe_save_button
          /\ PeMarkDirty(self) = self
    /\ (self.pe_editor_enabled /\ ~self.pe_editor_readOnly) =>
          PeMarkDirty(self).prompt_editor_dirty
    /\ ~self.system_prompt_editor_enabled =>
          /\ MarkDirty(self).system_prompt_editor_dirty = self.system_prompt_editor_dirty
          /\ MarkDirty(self).save_button = self.save_button
          /\ MarkDirty(self) = self
    /\ self.system_prompt_editor_enabled =>
          MarkDirty(self).system_prompt_editor_dirty

C28_Witness ==
    /\ ~timer
    /\ ~self.pe_editor_enabled /\ self.pe_editor_readOnly
    /\ ~self.system_prompt_editor_enabled
    /\ self.stacked_widget = SYSTEM_PROMPTS_VIEW_INDEX
    /\ ~self.prompt_editor_dirty /\ ~self.system_prompt_editor_dirty
    /\ PeMarkDirty(self) = self /\ MarkDirty(self) = self

\* C29: for every set of files in the preset directory and every order in
\* which the directory is read, the preset listing holds exactly the .txt
\* files, each once, with the default name first whenever it is present; the
\* list shown after the initial load is such a listing.
ListsTxtFiles(r, dir) ==
    /\ Range(r) = {n \in DOMAIN dir : EndsWithTxt(n)}
    /\ Len(r) = Cardinality(Range(r))
    /\ DEFAULT_PROMPT_NAME \in DOMAIN dir => r[1] = DEFAULT_PROMPT_NAME

C30_DirtyOnlyInOwnView ==
    /\ self.prompt_editor_dirty => self.stacked_widget = PROMPT_EDITOR_VIEW_INDEX
    /\ self.system_prompt_editor_dirty =>
          self.stacked_widget = SYSTEM_PROMPTS_VIEW_INDEX
    /\ ~(self.prompt_editor_dirty /\ self.system_prompt_editor_dirty)

C30_Witness ==
    /\ Logged(self, "Reverting selection.")
    /\ self.prompt_editor_dirty
    /\ self.stacked_widget = PROMPT_EDITOR_VIEW_INDEX
    /\ ~self.system_prompt_editor_dirty

\* C31: after every handler, a file open in the prompt editor is the generation
\* save target (current_prompt_editor_file is None or equals save_target_file),
\* and when the save target is None the editor has no file open.
C31_OpenFileIsSaveTarget ==
    /\ self.current_prompt_editor_file # None =>
          self.current_prompt_editor_file = self.save_target_file
    /\ self.save_target_file = None => self.current_prompt_editor_file = None

C31_Witness ==
    /\ Logged(self, "Appended OK")
    /\ self.save_target_file # None
    /\ self.current_prompt_editor_file = self.save_target_file
    /\ self.stacked_widget = GENERATOR_VIEW_INDEX

\* C32: the current view is Generator after the initial data load, and after
\* every handler (hence after every navigation handler, accepted or declined)
\* the sidebar's selected row equals the index of the displayed view, which is
\* one of the four views.
C32_SidebarRowIsDisplayedView ==
    [][/\ self'.nav_list = self'.stacked_widget
       /\ self'.stacked_widget \in Views
       /\ (timer /\ ~timer') =>
             /\ self'.stacked_widget = GENERATOR_VIEW_INDEX
             /\ self'.nav_list = GENERATOR_VIEW_INDEX]_vars

C32_Witness ==
    /\ Logged(self, RowLine(SETTINGS_VIEW_INDEX))
    /\ Logged(self, "User confirmation: True")
    /\ self.nav_list = SETTINGS_VIEW_INDEX
    /\ self.stacked_widget = SETTINGS_VIEW_INDEX

\* C33: view navigation never changes the generation save target: after every
\* run of the navigation handler (accepted or declined, into any view,
\* including the reconciliation on entering the Prompt Editor and a failed
\* reconciling load), save_target_file has the value it had before.
NavHandled(s) == \E row \in Views : Logged(s, RowLine(row))

C33_NavigationKeepsSaveTarget ==
    [][NavHandled(self') => self'.save_target_file = self.save_target_file]_vars

C33_Witness ==
    /\ Logged(self, RowLine(PROMPT_EDITOR_VIEW_INDEX))
    /\ Logged(self, "ERROR: File Error")
    /\ self.stacked_widget = PROMPT_EDITOR_VIEW_INDEX
    /\ self.save_target_file # None
    /\ self.current_prompt_editor_file = None

\* C34: after every handler, the "Save Generated Prompt" control is enabled if
\* and only if the most recent generation completed with a non-empty cleaned
\* response and no generation has been dispatched since.  The response display
\* is made editable exactly by such a completion and read-only again by the
\* next dispatch, and nothing else changes it, so it records that condition.
LastGenerationSucceeded(s) == ~s.response_display_readOnly

C34_SaveGeneratedEnabledIffLastGenerationSucceeded ==
    self.save_gen_button <=> LastGenerationSucceeded(self)

\* C35: after every preset operation (set active, save changes, save as,
\* delete), the cached active system-prompt content used for generation equals
\* the on-disk content of the active preset file.
PresetOperation(s) ==
    \/ Logged(s, "Preset Save OK.") \/ Logged(s, "Save fail.")
    \/ Logged(s, "Save As OK.") \/ Logged(s, "Save As fail.")
    \/ Logged(s, "Delete OK") \/ Logged(s, "Delete fail")
    \/ Logged(s, "Set active.")

C35_CachedActiveContentMatchesDisk ==
    [][PresetOperation(self') =>
         self'.current_system_prompt_content
             = LoadPromptText(presets', self'.active_system_prompt_file)]_vars

GenerationInputsValid(s, user_input) ==
    /\ ~InvalidModel(s.model_combo_current)
    /\ Strip(user_input) # <<>>
    /\ s.example_prompts_content # <<>>
    /\ s.current_system_prompt_content # <<>>
    /\ Head(s.current_system_prompt_content) # "Error loading"

GenerationStarted ==
    \E t \in DOMAIN tasks' \ DOMAIN tasks : tasks'[t].fn = "generate_text"

GenerationRefused(s) ==
    \/ Logged(s, "WARNING: Input Error")
    \/ Logged(s, "WARNING: System Prompt Error")

C37_GenerateOnlyWithValidInputs ==
    [][/\ \A user_input \in GoalTexts :
            LET r == TriggerGeneration(Begin(self), user_input)
            IN /\ r.dispatch <=> GenerationInputsValid(self, user_input)
               /\ ~r.dispatch =>
                    /\ GenerationRefused(r.w)
                    /\ r.w.controls_enabled = self.controls_enabled
                    /\ r.w.response_display_text = self.response_display_text
                    /\ r.w.response_display_readOnly = self.response_display_readOnly
                    /\ r.w.save_gen_button = self.save_gen_button
       /\ GenerationStarted =>
            /\ \E user_input \in GoalTexts : GenerationInputsValid(self, user_input)
            /\ ~self'.controls_enabled
       /\ (GenerationRefused(self') /\ self' # self) =>
            /\ tasks' = tasks
            /\ self'.controls_enabled = self.controls_enabled
            /\ self'.response_display_text = self.response_display_text
            /\ self'.response_display_readOnly = self.response_display_readOnly
            /\ self'.save_gen_button = self.save_gen_button]_vars

C37_Witness ==
    /\ Logged(self, "WARNING: System Prompt Error")
    /\ self.current_system_prompt_content = <<>>
    /\ self.example_prompts_content # <<>>
    /\ ~InvalidModel(self.model_combo_current)
    /\ self.controls_enabled
    /\ tasks = <<>>

\* C38: the window close request is accepted only if, for every edit session
\* dirty at that moment, the user affirmatively confirmed discarding its
\* changes (no dirty session goes unasked and no answer is negative); when a
\* confirmation is declined the close is ignored and both sessions' content
\* and dirty flags are unchanged.
C38_CloseOnlyAfterConfirmation ==
    [][/\ (self'.closed /\ ~self.closed) =>
            /\ Logged(self', "Closing OK.")
            /\ ~Logged(self', "User confirmation: False")
            /\ (self.prompt_editor_dirty \/ self.system_prompt_editor_dirty) =>
                  Logged(self', "User confirmation: True")
       /\ Logged(self', "Close cancelled.") =>
            /\ ~self'.closed
            /\ Logged(self', "User confirmation: False")
            /\ PeSession(self') = PeSession(self)
            /\ SysSession(self') = SysSession(self)]_vars

C38_Witness ==
    /\ self.closed
    /\ Logged(self, "Closing OK.")
    /\ Logged(self, "User confirmation: True")
    /\ self.prompt_editor_dirty

\* C39: saving settings with an endpoint that is empty or does not start with
\* http:// or https:// (after trimming whitespace and trailing slashes) is
\* rejected with no effect: the API type, endpoint and key in memory and the
\* saved configuration are unchanged and no task is dispatched; a valid save
\* updates all three, saves them to the configuration and dispatches exactly
\* one FetchModels task.
ValidEndpoint(endpoint_text) ==
    LET endpoint == RStripSlash(Strip(endpoint_text))
    IN endpoint # <<>> /\ Head(endpoint) \in {"http://", "https://"}

TypeOK ==
    /\ self.stacked_widget \in Views
    /\ self.nav_list \in Views

====
